---- MODULE Spec2Model ----
(***************************************************************************)
(* A model of cucumber_expression.go: the rewriting of a parsed Cucumber   *)
(* Expression into an anchored regular expression (NewCucumberExpression   *)
(* and the rewrite* methods) and the argument extraction of Match.         *)
(*                                                                         *)
(* Strings are sequences of one-character strings, so that escaping,       *)
(* concatenation and "contains" are computed and not assumed.  A pointer   *)
(* to a ParameterType is either a reference to a registry-owned object     *)
(* ([ref |-> i], i an index of the registry) or a freshly allocated object *)
(* ([obj |-> record]) that only its creator holds.                         *)
(***************************************************************************)
EXTENDS Integers, Sequences, FiniteSets, TLC

VARIABLES
    ast,        \* the tree parse(expression) returned
    registry,   \* the ParameterTypeRegistry: its objects, in registration order
    phase,      \* "new", "compiled" (constructor returned result, nil), "failed"
    c,          \* the CucumberExpression the constructor built
    err,        \* the constructor's error result
    calls,      \* number of Match calls that have returned (sequential callers)
    call,       \* the last sequential Match call: inputs, locals, outcome
    proc        \* the concurrent callers of Match: position, locals, outcome

vars == <<ast, registry, phase, c, err, calls, call, proc>>

\* Bounds of the model.
MaxNodes == 5
MaxHints == 2
MaxCalls == 2

----------------------------------------------------------------------------
\* Strings and errors

RECURSIVE Concat(_)
Concat(ss) == IF ss = <<>> THEN <<>> ELSE Head(ss) \o Concat(Tail(ss))

\* s occurs in m as a contiguous substring
Contains(m, s) ==
    \E i \in 0..(Len(m) - Len(s)) : SubSeq(m, i + 1, i + Len(s)) = s

NoError == [kind |-> "nil", message |-> <<>>]

alternativesMayNotBeEmpty == <<"Alternative may not be empty: ">>
parameterTypesCanNotBeAlternative == <<"Parameter types cannot be alternative: ">>
parameterTypesCanNotBeOptional == <<"Parameter types cannot be optional: ">>
alternativeMayNotExclusivelyContainOptionals == <<"Alternative may not exclusively contain optionals: ">>
couldNotRewrite == <<"Could not rewrite ">>
optionalMayNotBeEmpty == <<"Optional may not be empty: ">>

\* fmt.Sprintf(format, arg) for the formats above, which all end in %s
Sprintf(format, arg) == format \o arg

NewCucumberExpressionError(message) ==
    [kind |-> "CucumberExpressionError", message |-> message]

NewUndefinedParameterTypeError(typeName) ==
    [kind |-> "UndefinedParameterTypeError",
     message |-> <<"Undefined parameter type ">> \o typeName]

\* The characters a parameter type name may not contain.
IllegalNameChars == {"{", "}", "(", ")", "\\", "/"}

CheckParameterTypeName(typeName) ==
    IF \E i \in 1..Len(typeName) : typeName[i] \in IllegalNameChars
    THEN [kind |-> "CucumberExpressionError",
          message |-> <<"Illegal character in parameter name ">> \o typeName]
    ELSE NoError

----------------------------------------------------------------------------
\* Parameter types and the registry

StringType == "string"
Int8Type == "int8"
IntType == "int"
UnknownType == "unknown"

\* The transformer of a registered type, named by the type it produces.
BuiltinTransformer(type) == [fn |-> "builtin", hint |-> type]

IntParameterType ==
    [name |-> <<"i", "n", "t">>,
     regexps |-> << <<"-", "?", "\\", "d", "+">>, <<"\\", "d", "+">> >>,
     type |-> IntType,
     transform |-> BuiltinTransformer(IntType)]

AnonymousParameterType ==
    [name |-> <<>>,
     regexps |-> << <<".", "*">> >>,
     type |-> UnknownType,
     transform |-> BuiltinTransformer(UnknownType)]

\* The registries: the same types, registered in either order.
Registries ==
    { <<IntParameterType, AnonymousParameterType>>,
      <<AnonymousParameterType, IntParameterType>> }

NilPointer == [ref |-> 0]
Ref(i) == [ref |-> i]
New(o) == [obj |-> o]
Deref(reg, p) == IF "ref" \in DOMAIN p THEN reg[p.ref] ELSE p.obj

LookupByTypeName(reg, typeName) ==
    IF \E i \in 1..Len(reg) : reg[i].name = typeName
    THEN Ref(CHOOSE i \in 1..Len(reg) : reg[i].name = typeName)
    ELSE NilPointer

isAnonymous(pt) == Len(pt.name) = 0

----------------------------------------------------------------------------
\* The expression tree

textNode == "textNode"
optionalNode == "optionalNode"
alternationNode == "alternationNode"
alternativeNode == "alternativeNode"
parameterNode == "parameterNode"
expressionNode == "expressionNode"
unknownNode == "unknownNode"

Node(t, ns, tok) == [nodeType |-> t, nodes |-> ns, token |-> tok]

\* node.text(): the node's own token followed by the text of its children
RECURSIVE text(_)
text(node) == node.token \o Concat([i \in 1..Len(node.nodes) |-> text(node.nodes[i])])

\* The leaves the parser can produce, over a small alphabet.
LeafNodes ==
    { Node(textNode, <<>>, <<"(">>),
      Node(parameterNode, <<>>, <<"i", "n", "t">>),
      Node(parameterNode, <<>>, <<>>),
      Node(parameterNode, <<>>, <<"(">>) }

RECURSIVE NodesOfSize(_), Forests(_), AlternativeForests(_)

\* The Text, Parameter, Optional and Alternation nodes made of exactly n nodes
NodesOfSize(n) ==
    IF n < 1 THEN {}
    ELSE (IF n = 1 THEN LeafNodes ELSE {})
         \cup { Node(optionalNode, f, <<>>) : f \in Forests(n - 1) }
         \cup { Node(alternationNode, f, <<>>) : f \in AlternativeForests(n - 1) }

\* The sequences of such nodes made of exactly n nodes in total
Forests(n) ==
    IF n = 0 THEN { <<>> }
    ELSE UNION { { <<t>> \o f : t \in NodesOfSize(k), f \in Forests(n - k) } : k \in 1..n }

\* The non-empty sequences of Alternative nodes made of exactly n nodes in total
AlternativeForests(n) ==
    IF n < 1 THEN {}
    ELSE UNION { { <<Node(alternativeNode, g, <<>>)>> \o f :
                      g \in Forests(k - 1),
                      f \in (IF k = n THEN { <<>> } ELSE AlternativeForests(n - k)) } :
                 k \in 1..n }

Expr(nodes) == Node(expressionNode, nodes, <<>>)
Optional(nodes) == Node(optionalNode, nodes, <<>>)
Alternation(nodes) == Node(alternationNode, nodes, <<>>)
Alternative(nodes) == Node(alternativeNode, nodes, <<>>)
TextA == Node(textNode, <<>>, <<"a">>)
ParamInt == Node(parameterNode, <<>>, <<"i", "n", "t">>)
ParamAnonymous == Node(parameterNode, <<>>, <<>>)

\* Trees the size bound leaves out: an undefined type, nodes of no known kind,
\* parameters deep below optionals and alternations, and a tree no parser
\* builds, with an Alternative directly below an Optional.
ExtraTrees ==
    { Expr(<<Node(parameterNode, <<>>, <<"x">>)>>),
      Expr(<<Node(unknownNode, <<>>, <<>>)>>),
      Expr(<<Optional(<<TextA, Node(unknownNode, <<>>, <<>>)>>)>>),
      Expr(<<Optional(<<TextA, Alternation(<<Alternative(<<TextA, Optional(<<ParamInt>>)>>)>>)>>)>>),
      Expr(<<Alternation(<<Alternative(<<TextA>>),
                           Alternative(<<TextA, Optional(<<TextA, ParamAnonymous>>)>>)>>)>>),
      Expr(<<ParamInt, Optional(<<TextA, Alternation(<<Alternative(<<TextA>>),
                                                     Alternative(<<Optional(<<TextA>>), TextA>>)>>)>>),
             ParamAnonymous>>),
      Expr(<<Optional(<<TextA, Alternative(<<ParamInt>>)>>)>>) }

Trees ==
    UNION { { Node(expressionNode, f, <<>>) : f \in Forests(n - 1) } : n \in 1..MaxNodes }
    \cup ExtraTrees

\* The expression text a tree was parsed from.
RECURSIVE Source(_)
SourceOfText(token) ==
    Concat([i \in 1..Len(token) |->
              IF token[i] \in {"(", ")", "{", "}", "/", "\\"}
              THEN <<"\\", token[i]>> ELSE <<token[i]>>])
SourceOfNodes(nodes, delimiter) ==
    Concat([i \in 1..Len(nodes) |->
              (IF i > 1 THEN delimiter ELSE <<>>) \o Source(nodes[i])])
Source(node) ==
    CASE node.nodeType = textNode -> SourceOfText(node.token)
      [] node.nodeType = optionalNode -> <<"(">> \o SourceOfNodes(node.nodes, <<>>) \o <<")">>
      [] node.nodeType = alternationNode -> SourceOfNodes(node.nodes, <<"/">>)
      [] node.nodeType = parameterNode -> <<"{">> \o SourceOfText(text(node)) \o <<"}">>
      [] OTHER -> SourceOfNodes(node.nodes, <<>>)

----------------------------------------------------------------------------
\* The rewriter

EmptyTreeRegexp ==
    [valid |-> FALSE, pattern |-> <<>>, re |-> [op |-> "cat", subs |-> <<>>], groups |-> <<>>]

\* result := &CucumberExpression{source: expression, parameterTypeRegistry: ...}
EmptyExpression(expression) ==
    [source |-> expression, parameterTypes |-> <<>>, treeRegexp |-> EmptyTreeRegexp]

\* What a rewrite method returns (string, error), with the receiver as it leaves it
Result(s, e, cc) == [s |-> s, err |-> e, c |-> cc]

EscapeClass == {"\\", "^", "[", "(", "{", "$", ".", "|", "?", "*", "+", "}", ")", "]"}

processEscapes(expression) ==
    Concat([i \in 1..Len(expression) |->
              IF expression[i] \in EscapeClass
              THEN <<"\\", expression[i]>>
              ELSE <<expression[i]>>])

assertNotEmpty(cc, node, message) ==
    IF \E i \in 1..Len(node.nodes) : node.nodes[i].nodeType = textNode
    THEN NoError
    ELSE NewCucumberExpressionError(Sprintf(message, cc.source))

\* assertNoParameters looking at the first child only
assertNoParametersFirstOnly(cc, node, message) ==
    IF Len(node.nodes) > 0 /\ node.nodes[1].nodeType = parameterNode
    THEN NewCucumberExpressionError(Sprintf(message, cc.source))
    ELSE NoError

assertNoParameters(cc, node, message) ==
    IF \E i \in 1..Len(node.nodes) : node.nodes[i].nodeType = parameterNode
    THEN NewCucumberExpressionError(Sprintf(message, cc.source))
    ELSE NoError

RECURSIVE Join(_, _)
Join(ss, delimiter) ==
    IF ss = <<>> THEN <<>>
    ELSE IF Len(ss) = 1 THEN ss[1]
    ELSE ss[1] \o delimiter \o Join(Tail(ss), delimiter)

\* buildCaptureRegexp wrapping each of several fragments in a capturing group
buildCaptureRegexpCapturing(regexps) ==
    IF Len(regexps) = 1
    THEN <<"(">> \o regexps[1] \o <<")">>
    ELSE <<"(">>
         \o Join([i \in 1..Len(regexps) |-> <<"(">> \o regexps[i] \o <<")">>], <<"|">>)
         \o <<")">>

buildCaptureRegexp(regexps) ==
    IF Len(regexps) = 1
    THEN <<"(">> \o regexps[1] \o <<")">>
    ELSE <<"(">>
         \o Join([i \in 1..Len(regexps) |-> <<"(", "?", ":">> \o regexps[i] \o <<")">>],
                 <<"|">>)
         \o <<")">>

RECURSIVE rewriteNodeToRegex(_, _, _)
RECURSIVE rewriteNodesToRegex(_, _, _, _, _, _)
RECURSIVE rewriteNodesLoop(_, _, _, _, _, _, _)

\* The body of the loop of rewriteAlternation for one alternative: the error it
\* returns with, or NoError when the loop goes on
\* the loop body without its test for an alternative with no children
checkAlternativeNoEmptyTest(cc, alternative) ==
    LET e == assertNoParameters(cc, alternative, parameterTypesCanNotBeAlternative)
    IN  IF e # NoError THEN e
        ELSE assertNotEmpty(cc, alternative, alternativeMayNotExclusivelyContainOptionals)

checkAlternative(cc, alternative) ==
    IF Len(alternative.nodes) = 0
    THEN NewCucumberExpressionError(Sprintf(alternativesMayNotBeEmpty, cc.source))
    ELSE LET e == assertNoParameters(cc, alternative, parameterTypesCanNotBeAlternative)
         IN  IF e # NoError THEN e
             ELSE assertNotEmpty(cc, alternative, alternativeMayNotExclusivelyContainOptionals)

rewriteOptional(cc, reg, node) ==
    LET e1 == assertNoParameters(cc, node, parameterTypesCanNotBeOptional)
        e2 == assertNotEmpty(cc, node, optionalMayNotBeEmpty)
    IN  IF e1 # NoError THEN Result(<<>>, e1, cc)
        ELSE IF e2 # NoError THEN Result(<<>>, e2, cc)
        ELSE rewriteNodesToRegex(cc, reg, node.nodes, <<>>, <<"(", "?", ":">>, <<")", "?">>)

rewriteAlternation(cc, reg, node) ==
    LET failing == { i \in 1..Len(node.nodes) : checkAlternative(cc, node.nodes[i]) # NoError }
        first == CHOOSE i \in failing : \A j \in failing : i <= j
    IN  IF failing # {}
        THEN Result(<<>>, checkAlternative(cc, node.nodes[first]), cc)
        ELSE rewriteNodesToRegex(cc, reg, node.nodes, <<"|">>, <<"(", "?", ":">>, <<")">>)

rewriteAlternative(cc, reg, node) ==
    rewriteNodesToRegex(cc, reg, node.nodes, <<>>, <<>>, <<>>)

\* rewriteParameter putting the type first in the list instead of last
rewriteParameterPrepending(cc, reg, node) ==
    LET typeName == text(node)
        e == CheckParameterTypeName(typeName)
        parameterType == LookupByTypeName(reg, typeName)
    IN  IF e # NoError THEN Result(<<>>, e, cc)
        ELSE IF parameterType = NilPointer
        THEN Result(<<>>, NewUndefinedParameterTypeError(typeName), cc)
        ELSE Result(buildCaptureRegexp(Deref(reg, parameterType).regexps), NoError,
                    [cc EXCEPT !.parameterTypes = <<parameterType>> \o @])

rewriteParameter(cc, reg, node) ==
    LET typeName == text(node)
        e == CheckParameterTypeName(typeName)
        parameterType == LookupByTypeName(reg, typeName)
    IN  IF e # NoError THEN Result(<<>>, e, cc)
        ELSE IF parameterType = NilPointer
        THEN Result(<<>>, NewUndefinedParameterTypeError(typeName), cc)
        ELSE Result(buildCaptureRegexp(Deref(reg, parameterType).regexps), NoError,
                    [cc EXCEPT !.parameterTypes = Append(@, parameterType)])

rewriteExpression(cc, reg, node) ==
    rewriteNodesToRegex(cc, reg, node.nodes, <<>>, <<"^">>, <<"$">>)

rewriteNodeToRegex(cc, reg, node) ==
    CASE node.nodeType = textNode -> Result(processEscapes(node.token), NoError, cc)
      [] node.nodeType = optionalNode -> rewriteOptional(cc, reg, node)
      [] node.nodeType = alternationNode -> rewriteAlternation(cc, reg, node)
      [] node.nodeType = alternativeNode -> rewriteAlternative(cc, reg, node)
      [] node.nodeType = parameterNode -> rewriteParameter(cc, reg, node)
      [] node.nodeType = expressionNode -> rewriteExpression(cc, reg, node)
      [] OTHER -> Result(<<>>, NewCucumberExpressionError(Sprintf(couldNotRewrite, cc.source)), cc)

\* The loop of rewriteNodesToRegex from its i-th node on (i counts from 1),
\* builder holding what was written so far
rewriteNodesNext(r, reg, nodes, delimiter, suffix, i, builder) ==
    IF r.err # NoError THEN r
    ELSE rewriteNodesLoop(r.c, reg, nodes, delimiter, suffix, i + 1,
                          builder \o (IF i > 1 THEN delimiter ELSE <<>>) \o r.s)

rewriteNodesLoop(cc, reg, nodes, delimiter, suffix, i, builder) ==
    IF i > Len(nodes) THEN Result(builder \o suffix, NoError, cc)
    ELSE rewriteNodesNext(rewriteNodeToRegex(cc, reg, nodes[i]),
                          reg, nodes, delimiter, suffix, i, builder)

rewriteNodesToRegex(cc, reg, nodes, delimiter, prefix, suffix) ==
    rewriteNodesLoop(cc, reg, nodes, delimiter, suffix, 1, prefix)

----------------------------------------------------------------------------
\* regexp.MustCompile and TreeRegexp: the regular expressions the rewriter emits
\* (literals, \-escapes, \d, ., ?, *, +, |, capturing and (?: groups, ^ and $)

NoParse == [re |-> [op |-> "cat", subs |-> <<>>], next |-> 0, ok |-> FALSE]
Parsed(re, next) == [re |-> re, next |-> next, ok |-> TRUE]

RECURSIVE parseAlternation(_, _), parseAlternatives(_, _, _), parseConcat(_, _, _)

parseAtom(s, i) ==
    IF i > Len(s) THEN NoParse
    ELSE CASE s[i] = "\\" ->
                IF i + 1 > Len(s) THEN NoParse
                ELSE Parsed(IF s[i + 1] = "d" THEN [op |-> "digit"]
                            ELSE [op |-> "lit", ch |-> s[i + 1]], i + 2)
           [] s[i] = "(" ->
                LET capture == ~(i + 2 <= Len(s) /\ s[i + 1] = "?" /\ s[i + 2] = ":")
                    body == parseAlternation(s, IF capture THEN i + 1 ELSE i + 3)
                IN  IF body.ok /\ body.next <= Len(s) /\ s[body.next] = ")"
                    THEN Parsed([op |-> "group", capture |-> capture, id |-> i,
                                 end |-> body.next, sub |-> body.re], body.next + 1)
                    ELSE NoParse
           [] s[i] = "." -> Parsed([op |-> "any"], i + 1)
           [] s[i] = "^" -> Parsed([op |-> "bol"], i + 1)
           [] s[i] = "$" -> Parsed([op |-> "eol"], i + 1)
           [] s[i] \in {")", "|", "?", "*", "+", "[", "]", "{", "}"} -> NoParse
           [] OTHER -> Parsed([op |-> "lit", ch |-> s[i]], i + 1)

\* an atom and the repetition operator that may follow it
parseItem(s, i) ==
    LET a == parseAtom(s, i)
    IN  IF a.ok /\ a.next <= Len(s) /\ s[a.next] \in {"?", "*", "+"}
        THEN Parsed([op |-> "rep", kind |-> s[a.next], sub |-> a.re], a.next + 1)
        ELSE a

parseConcat(s, i, acc) ==
    IF i > Len(s) \/ s[i] \in {")", "|"}
    THEN Parsed([op |-> "cat", subs |-> acc], i)
    ELSE LET item == parseItem(s, i)
         IN  IF item.ok THEN parseConcat(s, item.next, Append(acc, item.re)) ELSE NoParse

parseAlternatives(s, i, acc) ==
    IF i <= Len(s) /\ s[i] = "|"
    THEN LET b == parseConcat(s, i + 1, <<>>)
         IN  IF b.ok THEN parseAlternatives(s, b.next, Append(acc, b.re)) ELSE NoParse
    ELSE Parsed([op |-> "alt", subs |-> acc], i)

parseAlternation(s, i) ==
    LET a == parseConcat(s, i, <<>>)
    IN  IF a.ok THEN parseAlternatives(s, a.next, <<a.re>>) ELSE NoParse

\* The capturing groups of a regexp in the order of their opening parentheses:
\* all of them, or only those that lie in no other capturing group
RECURSIVE Groups(_, _)
Groups(re, all) ==
    CASE re.op = "group" ->
           IF re.capture
           THEN <<re.id>> \o (IF all THEN Groups(re.sub, all) ELSE <<>>)
           ELSE Groups(re.sub, all)
      [] re.op = "rep" -> Groups(re.sub, all)
      [] re.op \in {"cat", "alt"} ->
           Concat([k \in 1..Len(re.subs) |-> Groups(re.subs[k], all)])
      [] OTHER -> <<>>

\* NewTreeRegexp(regexp.MustCompile(pattern)); valid is FALSE where MustCompile panics
NewTreeRegexp(pattern) ==
    LET p == parseAlternation(pattern, 1)
    IN  IF p.ok /\ p.next = Len(pattern) + 1
        THEN [valid |-> TRUE, pattern |-> pattern, re |-> p.re,
              groups |-> Groups(p.re, FALSE)]
        ELSE [EmptyTreeRegexp EXCEPT !.pattern = pattern]

NoValue == [present |-> FALSE, s |-> <<>>]
Value(s) == [present |-> TRUE, s |-> s]
At(pos, caps) == [pos |-> pos, caps |-> caps]

Digits == <<"0", "1", "2", "3", "4", "5", "6", "7", "8", "9">>
IsDigit(ch) == \E d \in 1..Len(Digits) : Digits[d] = ch

RECURSIVE matchRe(_, _, _, _), matchCat(_, _, _), matchStar(_, _, _, _)

\* every way re matches t from one of the places rs, most preferred first
matchEach(re, t, rs) ==
    Concat([k \in 1..Len(rs) |-> matchRe(re, t, rs[k].pos, rs[k].caps)])

matchCat(subs, t, rs) ==
    IF subs = <<>> THEN rs ELSE matchCat(Tail(subs), t, matchEach(Head(subs), t, rs))

\* the matches of sub* that go on from the matches rs of sub
matchMore(sub, t, rs) ==
    Concat([k \in 1..Len(rs) |-> matchStar(sub, t, rs[k].pos, rs[k].caps)])

matchStar(sub, t, pos, caps) ==
    LET Advances(r) == r.pos > pos
    IN  matchMore(sub, t, SelectSeq(matchRe(sub, t, pos, caps), Advances))
        \o <<At(pos, caps)>>

\* the matches rs of a capturing group's body, with the group's text recorded
captured(rs, id, t, pos) ==
    [k \in 1..Len(rs) |->
        At(rs[k].pos, [rs[k].caps EXCEPT ![id] = Value(SubSeq(t, pos, rs[k].pos - 1))])]

matchRe(re, t, pos, caps) ==
    CASE re.op = "lit" ->
           IF pos <= Len(t) /\ t[pos] = re.ch THEN <<At(pos + 1, caps)>> ELSE <<>>
      [] re.op = "digit" ->
           IF pos <= Len(t) /\ IsDigit(t[pos]) THEN <<At(pos + 1, caps)>> ELSE <<>>
      [] re.op = "any" -> IF pos <= Len(t) THEN <<At(pos + 1, caps)>> ELSE <<>>
      [] re.op = "bol" -> IF pos = 1 THEN <<At(pos, caps)>> ELSE <<>>
      [] re.op = "eol" -> IF pos = Len(t) + 1 THEN <<At(pos, caps)>> ELSE <<>>
      [] re.op = "cat" -> matchCat(re.subs, t, <<At(pos, caps)>>)
      [] re.op = "alt" ->
           Concat([k \in 1..Len(re.subs) |-> matchRe(re.subs[k], t, pos, caps)])
      [] re.op = "group" ->
           IF re.capture
           THEN captured(matchRe(re.sub, t, pos, caps), re.id, t, pos)
           ELSE matchRe(re.sub, t, pos, caps)
      [] re.op = "rep" ->
           CASE re.kind = "?" -> matchRe(re.sub, t, pos, caps) \o <<At(pos, caps)>>
             [] re.kind = "*" -> matchStar(re.sub, t, pos, caps)
             [] OTHER -> matchMore(re.sub, t, matchRe(re.sub, t, pos, caps))

\* the matches of re that start leftmost in t, at start or later
RECURSIVE matchFrom(_, _, _, _)
matchOrLater(rs, re, t, start, caps) ==
    IF rs # <<>> THEN rs
    ELSE IF start > Len(t) THEN <<>>
    ELSE matchFrom(re, t, start + 1, caps)
matchFrom(re, t, start, caps) ==
    matchOrLater(matchRe(re, t, start, caps), re, t, start, caps)

\* the group tree of the matches rs: nil, or the top-level capturing groups of
\* the most preferred one
groupOf(rs, groups) ==
    IF rs = <<>> THEN [matched |-> FALSE, children |-> <<>>]
    ELSE [matched |-> TRUE,
          children |-> [k \in 1..Len(groups) |-> rs[1].caps[groups[k]]]]

\* treeRegexp.Match(text)
TreeRegexpMatch(treeRegexp, t) ==
    LET ids == Groups(treeRegexp.re, TRUE)
    IN  groupOf(matchFrom(treeRegexp.re, t, 1,
                          [id \in { ids[k] : k \in 1..Len(ids) } |-> NoValue]),
                treeRegexp.groups)

----------------------------------------------------------------------------
\* The constructor

\* NewCucumberExpression for the expression that parses to tree: the
\* CucumberExpression it returns (meaningful when err is NoError) and its error
constructed(result, r) ==
    IF r.err # NoError
    THEN [c |-> result, err |-> r.err, pattern |-> <<>>]
    ELSE [c |-> [r.c EXCEPT !.treeRegexp = NewTreeRegexp(r.s)],
          err |-> NoError, pattern |-> r.s]

NewCucumberExpression(tree, reg) ==
    constructed(EmptyExpression(Source(tree)),
                rewriteNodeToRegex(EmptyExpression(Source(tree)), reg, tree))

----------------------------------------------------------------------------
\* Values and transformers

NilValue == [kind |-> "nil", s |-> <<>>, n |-> 0]
StringValue(s) == [kind |-> StringType, s |-> s, n |-> 0]
IntValue(type, n) == [kind |-> type, s |-> <<>>, n |-> n]

Transformed(v) == [value |-> v, failed |-> FALSE]
TransformFailed == [value |-> NilValue, failed |-> TRUE]

DigitValue(ch) == (CHOOSE d \in 1..Len(Digits) : Digits[d] = ch) - 1

RECURSIVE Decimal(_)
Decimal(ds) ==
    IF ds = <<>> THEN 0 ELSE 10 * Decimal(SubSeq(ds, 1, Len(ds) - 1)) + DigitValue(ds[Len(ds)])

\* strconv.ParseInt(s, 10, bits) for the widths the model's texts can exceed
ParseInt(s, type) ==
    LET negative == Len(s) > 0 /\ s[1] = "-"
        ds == IF negative THEN Tail(s) ELSE s
        n == IF negative THEN 0 - Decimal(ds) ELSE Decimal(ds)
    IN  IF ds = <<>> \/ \E k \in 1..Len(ds) : ~IsDigit(ds[k]) THEN TransformFailed
        ELSE IF type = Int8Type /\ (n < 0 - 2^7 \/ n > 2^7 - 1) THEN TransformFailed
        ELSE Transformed(IntValue(type, n))

\* parameterTypeRegistry.defaultTransformer.Transform(s, typeHint)
DefaultTransform(s, typeHint) ==
    CASE typeHint = StringType -> Transformed(StringValue(s))
      [] typeHint \in {Int8Type, IntType} -> ParseInt(s, typeHint)
      [] OTHER -> TransformFailed

\* The closure objectMapperTransformer(typeHint) returns, and the call of it:
\* panicked where the closure panics
objectMapperTransformer(typeHint) == [fn |-> "objectMapper", hint |-> typeHint]

callObjectMapperTransformer(typeHint, arg) ==
    IF ~arg.present THEN [value |-> NilValue, panicked |-> TRUE]
    ELSE LET r == DefaultTransform(arg.s, typeHint)
         IN  IF r.failed THEN [value |-> NilValue, panicked |-> TRUE]
             ELSE [value |-> r.value, panicked |-> FALSE]

\* parameterType.Transform(group values): a registered type's own transformer,
\* or the closure a de-anonymized type was given
Transform(pt, arg) ==
    IF pt.transform.fn = "objectMapper"
    THEN callObjectMapperTransformer(pt.transform.hint, arg)
    ELSE IF ~arg.present THEN [value |-> NilValue, panicked |-> FALSE]
    ELSE LET r == DefaultTransform(arg.s, pt.transform.hint)
         IN  [value |-> r.value, panicked |-> r.failed]

\* pt.deAnonymize(type1, transform): the new type, the error, and the receiver
\* as the call leaves it
deAnonymize(pt, type1, transform) ==
    [pt |-> New([name |-> <<"a", "n", "o", "n", "y", "m", "o", "u", "s">>,
                 regexps |-> pt.regexps, type |-> type1, transform |-> transform]),
     err |-> NoError,
     self |-> pt]

\* BuildArguments(treeRegexp, text, parameterTypes): nil, the arguments, or a panic
argumentsOf(values) ==
    IF \E k \in 1..Len(values) : values[k].panicked
    THEN [kind |-> "panic", args |-> <<>>]
    ELSE [kind |-> "arguments",
          args |-> [k \in 1..Len(values) |-> [value |-> values[k].value]]]

buildArgumentsOf(reg, group, parameterTypes) ==
    IF ~group.matched THEN [kind |-> "nil", args |-> <<>>]
    ELSE IF Len(group.children) # Len(parameterTypes)
    THEN [kind |-> "panic", args |-> <<>>]
    ELSE argumentsOf([k \in 1..Len(parameterTypes) |->
                        Transform(Deref(reg, parameterTypes[k]), group.children[k])])

BuildArguments(reg, treeRegexp, t, parameterTypes) ==
    buildArgumentsOf(reg, TreeRegexpMatch(treeRegexp, t), parameterTypes)

----------------------------------------------------------------------------
\* Match

\* The memory Match works on: the CucumberExpression and the registry's objects
Memory(cc, reg) == [c |-> cc, reg |-> reg]

\* hintOrDefault reading the hint one place too far
hintOrDefaultOffByOne(i, typeHints) ==
    IF i + 1 < Len(typeHints) THEN typeHints[i + 2] ELSE StringType

\* i counts from 0, as in the code
hintOrDefault(i, typeHints) ==
    IF i < Len(typeHints) THEN typeHints[i + 1] ELSE StringType

\* parameterTypes := c.parameterTypes, with no copy
copyParameterTypesSharing(cc) == [shared |-> TRUE, elems |-> <<>>]

\* make + copy: a slice with a backing array of its own.  A slice that shares
\* c.parameterTypes' backing array reads and writes the stored list.
copyParameterTypes(cc) == [shared |-> FALSE, elems |-> cc.parameterTypes]

SliceElems(m, slice) == IF slice.shared THEN m.c.parameterTypes ELSE slice.elems

SliceStore(m, slice, i, p) ==
    IF slice.shared
    THEN [m |-> [m EXCEPT !.c.parameterTypes[i + 1] = p], slice |-> slice]
    ELSE [m |-> m, slice |-> [slice EXCEPT !.elems[i + 1] = p]]

\* a method call's write-back of its pointer receiver
StoreObject(m, p, obj) ==
    IF "ref" \in DOMAIN p THEN [m EXCEPT !.reg[p.ref] = obj] ELSE m

\* the iteration storing the de-anonymized type in c.parameterTypes as well
matchIterationStoring(m, slice, i, typeHints) ==
    LET p == SliceElems(m, slice)[i + 1]
        typeHint == hintOrDefault(i, typeHints)
        d == deAnonymize(Deref(m.reg, p), typeHint, objectMapperTransformer(typeHint))
        st == SliceStore(StoreObject(m, p, d.self), slice, i, d.pt)
    IN  IF ~isAnonymous(Deref(m.reg, p)) THEN [m |-> m, slice |-> slice, err |-> NoError]
        ELSE IF d.err # NoError
        THEN [m |-> StoreObject(m, p, d.self), slice |-> slice, err |-> d.err]
        ELSE [m |-> [st.m EXCEPT !.c.parameterTypes[i + 1] = d.pt],
              slice |-> st.slice, err |-> NoError]

\* One iteration of the loop of Match, for index i
matchIteration(m, slice, i, typeHints) ==
    LET p == SliceElems(m, slice)[i + 1]
        typeHint == hintOrDefault(i, typeHints)
        d == deAnonymize(Deref(m.reg, p), typeHint, objectMapperTransformer(typeHint))
        st == SliceStore(StoreObject(m, p, d.self), slice, i, d.pt)
    IN  IF ~isAnonymous(Deref(m.reg, p)) THEN [m |-> m, slice |-> slice, err |-> NoError]
        ELSE IF d.err # NoError
        THEN [m |-> StoreObject(m, p, d.self), slice |-> slice, err |-> d.err]
        ELSE [m |-> st.m, slice |-> st.slice, err |-> NoError]

\* return BuildArguments(c.treeRegexp, text, parameterTypes), nil
returned(b) ==
    CASE b.kind = "nil" -> [kind |-> "noMatch", args |-> <<>>, err |-> NoError]
      [] b.kind = "panic" -> [kind |-> "panic", args |-> <<>>, err |-> NoError]
      [] OTHER -> [kind |-> "arguments", args |-> b.args, err |-> NoError]

\* the return reporting a nil result of BuildArguments as an error
matchReturnNilAsError(m, t, slice) ==
    LET b == returned(BuildArguments(m.reg, m.c.treeRegexp, t, SliceElems(m, slice)))
    IN  IF b.kind = "noMatch"
        THEN [kind |-> "error", args |-> <<>>,
              err |-> NewCucumberExpressionError(<<"no match">>)]
        ELSE b

matchReturn(m, t, slice) ==
    returned(BuildArguments(m.reg, m.c.treeRegexp, t, SliceElems(m, slice)))

\* return nil, err
matchError(e) == [kind |-> "error", args |-> <<>>, err |-> e]

RECURSIVE matchLoop(_, _, _, _)
matchLoopNext(r, i, typeHints) ==
    IF r.err # NoError THEN r ELSE matchLoop(r.m, r.slice, i + 1, typeHints)

matchLoop(m, slice, i, typeHints) ==
    IF i >= Len(SliceElems(m, slice)) THEN [m |-> m, slice |-> slice, err |-> NoError]
    ELSE matchLoopNext(matchIteration(m, slice, i, typeHints), i, typeHints)

\* c.Match(text, typeHints...): the memory as the call leaves it, the local
\* parameterTypes as BuildArguments got it, and what the call returns
matchAfterLoop(r, t) ==
    [m |-> r.m,
     parameterTypes |-> SliceElems(r.m, r.slice),
     outcome |-> IF r.err # NoError THEN matchError(r.err)
                 ELSE matchReturn(r.m, t, r.slice)]

Match(m, t, typeHints) ==
    matchAfterLoop(matchLoop(m, copyParameterTypes(m.c), 0, typeHints), t)

NoCall == [text |-> <<>>, typeHints |-> <<>>, parameterTypes |-> <<>>,
           outcome |-> [kind |-> "none", args |-> <<>>, err |-> NoError]]

Init ==
    /\ ast \in Trees
    /\ registry \in Registries
    /\ phase = "new"
    /\ c = EmptyExpression(Source(ast))
    /\ err = NoError
    /\ calls = 0
    /\ call = NoCall
    /\ proc = <<>>

Construct ==
    /\ phase = "new"
    /\ \E n \in { NewCucumberExpression(ast, registry) } :
           /\ c' = n.c
           /\ err' = n.err
           /\ phase' = IF n.err = NoError THEN "compiled" ELSE "failed"
    /\ UNCHANGED <<ast, registry, calls, call, proc>>

Next == Construct

Spec == Init /\ [][Next]_vars

----------------------------------------------------------------------------
\* Sequences of Match calls on one compiled expression

Hints == {StringType, Int8Type}

RECURSIVE SeqsUpTo(_, _)
SeqsUpTo(S, n) ==
    IF n = 0 THEN { <<>> }
    ELSE SeqsUpTo(S, n - 1)
         \cup { Append(q, x) : q \in { q \in SeqsUpTo(S, n - 1) : Len(q) = n - 1 }, x \in S }

TypeHints == SeqsUpTo(Hints, MaxHints)

Texts ==
    { <<>>, <<"a">>, <<"9">>, <<"a", "9">>, <<"9", "a", "9">>, <<"9", "9", "9">>,
      <<"a", "9", "9", "9">> }

\* {}, a{}, {int}a{}, {}{int}, {}{}, {int}, a(a){}
MatchTrees ==
    { Expr(<<ParamAnonymous>>),
      Expr(<<TextA, ParamAnonymous>>),
      Expr(<<ParamInt, TextA, ParamAnonymous>>),
      Expr(<<ParamAnonymous, ParamInt>>),
      Expr(<<ParamAnonymous, ParamAnonymous>>),
      Expr(<<ParamInt>>),
      Expr(<<TextA, Optional(<<TextA>>), ParamAnonymous>>) }

MatchInit ==
    /\ ast \in MatchTrees
    /\ registry \in Registries
    /\ phase = "new"
    /\ c = EmptyExpression(Source(ast))
    /\ err = NoError
    /\ calls = 0
    /\ call = NoCall
    /\ proc = <<>>

DoMatch ==
    /\ phase = "compiled"
    /\ calls < MaxCalls
    /\ \E t \in Texts, h \in TypeHints :
         \E r \in { Match(Memory(c, registry), t, h) } :
             /\ c' = r.m.c
             /\ registry' = r.m.reg
             /\ call' = [text |-> t, typeHints |-> h,
                         parameterTypes |-> r.parameterTypes, outcome |-> r.outcome]
    /\ calls' = calls + 1
    /\ UNCHANGED <<ast, phase, err, proc>>

MatchNext == Construct \/ DoMatch

MatchSpec == MatchInit /\ [][MatchNext]_vars

----------------------------------------------------------------------------
\* Concurrent Match calls on one compiled expression.  A call is the steps
\* between which another caller can run: the copy, each iteration of the loop,
\* and BuildArguments.

Callers == {"caller1", "caller2"}

ConcurrentTrees ==
    { Expr(<<ParamInt, TextA, ParamAnonymous>>),
      Expr(<<ParamAnonymous, ParamAnonymous>>) }

ConcurrentTexts == { <<"a">>, <<"9", "a", "9">>, <<"9", "9", "9">> }

Idle ==
    [pc |-> "idle", text |-> <<>>, typeHints |-> <<>>, i |-> 0,
     parameterTypes |-> [shared |-> FALSE, elems |-> <<>>],
     outcome |-> [kind |-> "none", args |-> <<>>, err |-> NoError]]

ConcurrentInit ==
    /\ ast \in ConcurrentTrees
    /\ registry \in Registries
    /\ phase = "new"
    /\ c = EmptyExpression(Source(ast))
    /\ err = NoError
    /\ calls = 0
    /\ call = NoCall
    /\ proc = [p \in Callers |-> Idle]

\* parameterTypes := make(...); copy(parameterTypes, c.parameterTypes); i := 0
MatchBegin(p) ==
    /\ phase = "compiled"
    /\ proc[p].pc = "idle"
    /\ \E t \in ConcurrentTexts, h \in TypeHints :
         proc' = [proc EXCEPT ![p] =
                    [Idle EXCEPT !.pc = "loop", !.text = t, !.typeHints = h,
                                 !.parameterTypes = copyParameterTypes(c)]]
    /\ UNCHANGED <<ast, registry, phase, c, err, calls, call>>

\* one iteration of the loop
MatchLoop(p) ==
    /\ proc[p].pc = "loop"
    /\ proc[p].i < Len(SliceElems(Memory(c, registry), proc[p].parameterTypes))
    /\ \E r \in { matchIteration(Memory(c, registry), proc[p].parameterTypes,
                                 proc[p].i, proc[p].typeHints) } :
         /\ c' = r.m.c
         /\ registry' = r.m.reg
         /\ proc' = [proc EXCEPT ![p] =
                       IF r.err # NoError
                       THEN [@ EXCEPT !.pc = "done", !.outcome = matchError(r.err)]
                       ELSE [@ EXCEPT !.i = @ + 1, !.parameterTypes = r.slice]]
    /\ UNCHANGED <<ast, phase, err, calls, call>>

\* the loop is over: return BuildArguments(...), nil
MatchBuild(p) ==
    /\ proc[p].pc = "loop"
    /\ proc[p].i >= Len(SliceElems(Memory(c, registry), proc[p].parameterTypes))
    /\ proc' = [proc EXCEPT ![p] =
                  [@ EXCEPT !.pc = "done",
                            !.outcome = matchReturn(Memory(c, registry), proc[p].text,
                                                    proc[p].parameterTypes)]]
    /\ UNCHANGED <<ast, registry, phase, c, err, calls, call>>

\* the caller takes the result and is free to call again
MatchEnd(p) ==
    /\ proc[p].pc = "done"
    /\ proc' = [proc EXCEPT ![p] = Idle]
    /\ UNCHANGED <<ast, registry, phase, c, err, calls, call>>

ConcurrentNext ==
    \/ Construct
    \/ \E p \in Callers : MatchBegin(p)
    \/ \E p \in Callers : MatchLoop(p)
    \/ \E p \in Callers : MatchBuild(p)
    \/ \E p \in Callers : MatchEnd(p)

ConcurrentSpec == ConcurrentInit /\ [][ConcurrentNext]_vars

----------------------------------------------------------------------------
\* Properties

\* the Parameter nodes of a tree, depth first, children in order
RECURSIVE ParameterNodes(_)
ParameterNodes(node) ==
    IF node.nodeType = parameterNode THEN <<node>>
    ELSE Concat([i \in 1..Len(node.nodes) |-> ParameterNodes(node.nodes[i])])

RECURSIVE SubNodes(_)
SubNodes(node) == {node} \cup UNION { SubNodes(node.nodes[i]) : i \in 1..Len(node.nodes) }

Children(node) == { node.nodes[i] : i \in 1..Len(node.nodes) }

AsConstructed == NewCucumberExpression(ast, registry).c

\* C1: when the constructor succeeds, parameterTypes has one entry per Parameter
\* node, and entry i is the registry's type of the name of the i-th Parameter
\* node in depth-first, left-to-right order, whatever the registration order.
C1_ParameterTypesInTraversalOrder ==
    phase = "compiled" =>
        /\ Len(c.parameterTypes) = Len(ParameterNodes(ast))
        /\ \A i \in 1..Len(c.parameterTypes) :
              /\ "ref" \in DOMAIN c.parameterTypes[i]
              /\ c.parameterTypes[i].ref \in 1..Len(registry)
              /\ registry[c.parameterTypes[i].ref].name = text(ParameterNodes(ast)[i])

\* two parameters of different types, the first of them registered last
C1_Witness ==
    /\ phase = "compiled"
    /\ Len(c.parameterTypes) >= 2
    /\ c.parameterTypes[1].ref > c.parameterTypes[2].ref

\* the number of capturing groups a pattern opens: "(" neither escaped nor
\* followed by "?"
RECURSIVE CaptureCount(_, _)
CaptureCount(pattern, i) ==
    IF i > Len(pattern) THEN 0
    ELSE IF pattern[i] = "\\" THEN CaptureCount(pattern, i + 2)
    ELSE IF pattern[i] = "(" /\ ~(i + 1 <= Len(pattern) /\ pattern[i + 1] = "?")
    THEN 1 + CaptureCount(pattern, i + 1)
    ELSE CaptureCount(pattern, i + 1)

\* the capturing groups of a regexp, all of them, in the order of their
\* opening parentheses
RECURSIVE CapturingGroups(_)
CapturingGroups(re) ==
    CASE re.op = "group" ->
           (IF re.capture THEN <<re>> ELSE <<>>) \o CapturingGroups(re.sub)
      [] re.op = "rep" -> CapturingGroups(re.sub)
      [] re.op \in {"cat", "alt"} ->
           Concat([k \in 1..Len(re.subs) |-> CapturingGroups(re.subs[k])])
      [] OTHER -> <<>>

\* (f) for one fragment, ((?:f1)|(?:f2)|...) for several
GroupText(regexps) ==
    IF Len(regexps) = 1 THEN <<"(">> \o regexps[1] \o <<")">>
    ELSE <<"(">>
         \o Concat([k \in 1..Len(regexps) |->
                      (IF k > 1 THEN <<"|">> ELSE <<>>) \o <<"(", "?", ":">> \o regexps[k] \o <<")">>])
         \o <<")">>

\* C8: the pattern of a compiled expression has exactly one capturing group
\* per Parameter node, the i-th of them being (f) or ((?:f1)|(?:f2)|...) for the
\* fragments of the i-th parameter's type; optionals, alternations and escaped
\* text add no capturing group.
C8_OneCapturingGroupPerParameter ==
    phase = "compiled" =>
        /\ c.treeRegexp.valid
        /\ CaptureCount(c.treeRegexp.pattern, 1) = Len(ParameterNodes(ast))
        /\ Len(CapturingGroups(c.treeRegexp.re)) = Len(ParameterNodes(ast))
        /\ \A k \in 1..Len(CapturingGroups(c.treeRegexp.re)) :
              SubSeq(c.treeRegexp.pattern, CapturingGroups(c.treeRegexp.re)[k].id,
                     CapturingGroups(c.treeRegexp.re)[k].end)
                = GroupText(Deref(registry, c.parameterTypes[k]).regexps)

\* a type of several fragments, a type of one, and an optional with text to escape
C8_Witness ==
    /\ phase = "compiled"
    /\ \E i, j \in 1..Len(c.parameterTypes) :
          /\ Len(Deref(registry, c.parameterTypes[i]).regexps) > 1
          /\ Len(Deref(registry, c.parameterTypes[j]).regexps) = 1
    /\ \E n \in SubNodes(ast) :
          /\ n.nodeType = optionalNode
          /\ \E t \in Children(n) : t.nodeType = textNode /\ t.token = <<"(">>

WellFormed(tree) ==
    /\ tree.nodeType = expressionNode
    /\ \A n \in SubNodes(tree) :
          /\ n.nodeType \in {textNode, parameterNode} => n.nodes = <<>>
          /\ n.nodeType = alternationNode =>
                \A k \in Children(n) : k.nodeType = alternativeNode
          /\ n.nodeType # alternationNode =>
                \A k \in Children(n) : k.nodeType \notin {alternativeNode, expressionNode}

\* no capturing group lies in a non-capturing group or under a repetition
RECURSIVE CapturesOutside(_)
CapturesOutside(re) ==
    CASE re.op = "group" -> re.capture \/ CapturingGroups(re.sub) = <<>>
      [] re.op = "rep" -> CapturingGroups(re.sub) = <<>>
      [] re.op \in {"cat", "alt"} -> \A k \in 1..Len(re.subs) : CapturesOutside(re.subs[k])
      [] OTHER -> TRUE

\* C10: in a well-formed tree that compiles, no Parameter node lies below an
\* Optional or an Alternation node at any depth, and no capturing group of the
\* pattern lies in a (?:...)? or (?:...|...) group.
C10_NoParameterBelowOptionalOrAlternation ==
    (phase = "compiled" /\ WellFormed(ast)) =>
        /\ \A n \in SubNodes(ast) :
              n.nodeType \in {optionalNode, alternationNode} => ParameterNodes(n) = <<>>
        /\ CapturesOutside(c.treeRegexp.re)

\* a compiled tree with parameters and with an optional that holds more groups
C10_Witness ==
    /\ phase = "compiled"
    /\ WellFormed(ast)
    /\ ParameterNodes(ast) # <<>>
    /\ \E n \in SubNodes(ast) :
          /\ n.nodeType = optionalNode
          /\ \E k \in Children(n) : k.nodeType \in {optionalNode, alternationNode}

AlternationNodes(tree) == { n \in SubNodes(tree) : n.nodeType = alternationNode }
EmptyAlternatives(n) == { i \in 1..Len(n.nodes) : Len(n.nodes[i].nodes) = 0 }
FirstEmptyAlternative(n) ==
    CHOOSE i \in EmptyAlternatives(n) : \A j \in EmptyAlternatives(n) : i <= j
PassesChecks(alternative) ==
    /\ \E k \in Children(alternative) : k.nodeType = textNode
    /\ \A k \in Children(alternative) : k.nodeType # parameterNode
AlternativesMayNotBeEmptyError ==
    NewCucumberExpressionError(Sprintf(alternativesMayNotBeEmpty, c.source))

\* C7 as claimed: rewriting an Alternation with an Alternative without children
\* fails with AlternativesMayNotBeEmpty, wherever that Alternative stands and
\* whatever the others hold.
C7_EmptyAlternativeAlwaysReported ==
    phase # "new" =>
        \A n \in AlternationNodes(ast) :
            EmptyAlternatives(n) # {} =>
                rewriteAlternation(c, registry, n).err = AlternativesMayNotBeEmptyError

\* C7 as amended: rewriting an Alternation with an Alternative without children
\* fails, and with AlternativesMayNotBeEmpty when every Alternative before the
\* first one without children has a Text child and no Parameter child.
C7_EmptyAlternativeReportedFirstInOrder ==
    phase # "new" =>
        \A n \in AlternationNodes(ast) :
            EmptyAlternatives(n) # {} =>
                /\ rewriteAlternation(c, registry, n).err # NoError
                /\ (\A j \in 1..(FirstEmptyAlternative(n) - 1) : PassesChecks(n.nodes[j]))
                      => rewriteAlternation(c, registry, n).err = AlternativesMayNotBeEmptyError

\* the constructor failed with the error, the empty alternative not being the first
C7_Witness ==
    /\ phase = "failed"
    /\ err = AlternativesMayNotBeEmptyError
    /\ \E n \in AlternationNodes(ast) :
          EmptyAlternatives(n) # {} /\ FirstEmptyAlternative(n) > 1

\* C6 as claimed: the message of every grammar error of the constructor holds
\* the source expression.
C6_GrammarErrorsHoldSource ==
    (phase = "failed" /\ err.kind = "CucumberExpressionError") =>
        Contains(err.message, c.source)

StoredType(i) == Deref(registry, c.parameterTypes[i])

\* C2: after any Match calls, failed ones included, the stored parameterTypes
\* are those the constructor left, and the registry's objects are as they were
\* registered: its anonymous type is still anonymous.
C2_StoredParameterTypesUnchanged ==
    calls >= 1 =>
        /\ c.parameterTypes = AsConstructed.parameterTypes
        /\ \A i \in 1..Len(c.parameterTypes) :
              isAnonymous(StoredType(i)) <=> (text(ParameterNodes(ast)[i]) = <<>>)
        /\ registry \in Registries

\* a second call, which failed, and whose own list was de-anonymized
C2_Witness ==
    /\ calls >= 2
    /\ call.outcome.kind = "panic"
    /\ call.parameterTypes # c.parameterTypes

\* the hint of position i (from 0): typeHints[i], the string type past the end
HintAt(typeHints, i) == IF i < Len(typeHints) THEN typeHints[i + 1] ELSE StringType

\* C9: Match builds the arguments with, at each position i of an anonymous
\* type, that type de-anonymized with the hint of position i (the string type
\* when the hints end before i), and with the stored type at every other
\* position; the value of an anonymous position has the hint's type.
C9_HintsByParameterPosition ==
    calls >= 1 =>
        /\ Len(call.parameterTypes) = Len(c.parameterTypes)
        /\ \A i \in 0..(Len(c.parameterTypes) - 1) :
              IF isAnonymous(StoredType(i + 1))
              THEN /\ call.parameterTypes[i + 1] =
                        New([name |-> <<"a", "n", "o", "n", "y", "m", "o", "u", "s">>,
                             regexps |-> StoredType(i + 1).regexps,
                             type |-> HintAt(call.typeHints, i),
                             transform |-> [fn |-> "objectMapper",
                                            hint |-> HintAt(call.typeHints, i)]])
                   /\ call.outcome.kind = "arguments" =>
                        call.outcome.args[i + 1].value.kind = HintAt(call.typeHints, i)
              ELSE call.parameterTypes[i + 1] = c.parameterTypes[i + 1]

\* {int}a{} with hints string, int8: the anonymous parameter, second in the
\* expression and first of the anonymous ones, took the second hint
C9_Witness ==
    /\ calls >= 1
    /\ ast = Expr(<<ParamInt, TextA, ParamAnonymous>>)
    /\ call.typeHints = <<StringType, Int8Type>>
    /\ call.outcome.kind = "arguments"
    /\ call.outcome.args[2].value = IntValue(Int8Type, 9)

Matches == TreeRegexpMatch(c.treeRegexp, call.text).matched

\* C5: a text the pattern does not match gives nil arguments and a nil error,
\* whatever the hints, also after anonymous types were de-anonymized.
C5_NoMatchIsNotAnError ==
    (calls >= 1 /\ ~Matches) =>
        call.outcome = [kind |-> "noMatch", args |-> <<>>, err |-> NoError]

\* no match, with hints given and an anonymous type de-anonymized
C5_Witness ==
    /\ calls >= 1
    /\ ~Matches
    /\ call.typeHints # <<>>
    /\ call.parameterTypes # c.parameterTypes

\* the pattern matches the text and the transformer of some position rejects
\* what its group captured
TransformerRejects ==
    /\ Matches
    /\ Len(TreeRegexpMatch(c.treeRegexp, call.text).children) = Len(call.parameterTypes)
    /\ \E k \in 1..Len(call.parameterTypes) :
          Transform(Deref(registry, call.parameterTypes[k]),
                    TreeRegexpMatch(c.treeRegexp, call.text).children[k]).panicked

\* C4 as claimed: when the pattern matches and a transformer rejects the
\* captured text, Match returns an error.
C4_TransformFailureIsErrorResult ==
    (calls >= 1 /\ TransformerRejects) =>
        (call.outcome.kind = "error" /\ call.outcome.err # NoError)

\* what the call of p returns when it runs alone
Alone(p) ==
    Match(Memory(AsConstructed, registry), proc[p].text, proc[p].typeHints).outcome

\* C3: whatever the interleaving of concurrent Match calls, the stored
\* parameterTypes, the treeRegexp and the registry stay as the constructor left
\* them, and each call returns what it returns when it runs alone.
C3_ConcurrentMatchesDoNotInterfere ==
    phase = "compiled" =>
        /\ c = AsConstructed
        /\ registry \in Registries
        /\ \A p \in DOMAIN proc : proc[p].pc = "done" => proc[p].outcome = Alone(p)

\* one call returned arguments while another, with other hints, is in its loop,
\* both having de-anonymized a type
C3_Witness ==
    \E p, q \in DOMAIN proc :
        /\ proc[p].pc = "done"
        /\ proc[p].outcome.kind = "arguments"
        /\ proc[q].pc = "loop"
        /\ proc[q].typeHints # proc[p].typeHints
        /\ proc[p].parameterTypes.elems # c.parameterTypes
        /\ proc[q].parameterTypes.elems # c.parameterTypes
        /\ proc[q].i >= 1

====
